---------------------------- MODULE Spec2Model ----------------------------
(***************************************************************************)
(* Model of meeting_scheduler_v06.py (class MeetingScheduler): the slot    *)
(* selection state machine (click, drag, release, right-click) and the     *)
(* proposal text generated from the selection.                             *)
(*                                                                         *)
(* Every Tk callback is one action.  A callback that raises is aborted at  *)
(* the raising statement: the assignments made before it are kept, the     *)
(* statements after it are not executed, and Tk reports the exception and  *)
(* goes on with the next event (tkinter's report_callback_exception).      *)
(***************************************************************************)
EXTENDS Integers, Sequences, FiniteSets, TLC

VARIABLES
    cell_states,     \* self.cell_states: dict (day, slot) -> bool, held as its
                     \* key set (keys) and the keys whose value is True (on)
    dragging,        \* self.dragging
    start_cell,      \* self.start_cell: (day, slot) or None
    last_cell,       \* self.last_cell: (day, slot) or None
    selection_mode,  \* self.selection_mode: the value a drag paints
    local_tz_cb,     \* text of the "My Time Zone" combobox
    target_tz_cb,    \* text of the "Other Time Zone" combobox
    duration_cb,     \* text of the "Meeting Duration" combobox
    meeting_text,    \* lines shown in self.meeting_text
    today,           \* what datetime.date.today() returns
    week_dates,      \* self.week_dates, computed once at construction
    time_labels,     \* text of self.local_time_labels / self.other_time_labels
    slot_labels,     \* background colour of the cells in self.slot_labels
    last_event,      \* the callback that ran last (history variable)
    prev_anchor,     \* the anchor of the drag a click replaced, or None (history)
    callback_error,  \* the exception the last callback ended with, or "none"
    proposal_called  \* the last callback reached update_meeting_proposal (history)

vars == << cell_states, dragging, start_cell, last_cell, selection_mode,
           local_tz_cb, target_tz_cb, duration_cb, meeting_text, today,
           week_dates, time_labels, slot_labels, last_event, prev_anchor,
           callback_error, proposal_called >>

-----------------------------------------------------------------------------
(* Program constants *)

\* self.total_slots = 48
total_slots == 48

\* for day in range(7)
NumDays == 7

\* minutes = slot * 30
SlotMinutes == 30

(* Bound of the model: the pointer events are drawn from the WindowLen cells *)
(* that follow in ordinal order from the last slot of day 0, so the window  *)
(* crosses the boundary between day 0 and day 1.                            *)
WindowLen == 3

None == << >>

Days == 0 .. (NumDays - 1)
Slots == 0 .. (total_slots - 1)
AllCells == { <<d, s>> : d \in Days, s \in Slots }

CellOfOrdinal(o) == << o \div total_slots, o % total_slots >>

ClickCells ==
    { CellOfOrdinal(o) : o \in (total_slots - 1) .. (total_slots + WindowLen - 2) }

\* A widget under the pointer that is not a grid cell (no .day/.slot).
NoCell == << -1 >>

-----------------------------------------------------------------------------
(* A Python dict with boolean values is the record of its key set and of   *)
(* the keys whose value is True.                                           *)

\* { k: False for k in keys }
DictAllFalse(keys) == [ keys |-> keys, on |-> {} ]

\* d[k], for a key of the dict
DictValue(d, k) == k \in d.on

\* d[k] = v
DictSet(d, k, v) ==
    [ keys |-> d.keys \cup {k},
      on |-> IF v THEN d.on \cup {k} ELSE d.on \ {k} ]

-----------------------------------------------------------------------------
(* The timezone catalog and the timezone library.  Dates are day numbers:  *)
(* date 0 is Monday 2026-10-26, so date 6 is Sunday 2026-11-01, the day    *)
(* US daylight saving time ends (02:00 PDT = 09:00 UTC).                   *)

\* self.timezone_list: (display, tz_name) pairs, sorted by offset then name;
\* an excerpt of the catalog get_timezones builds.
timezone_list ==
    << << "(UTC-08:00) US Pacific Time", "America/Los_Angeles" >>,
       << "(UTC+00:00) UTC", "UTC" >> >>

DurationValues == { "30 minutes", "an hour" }

TzLabels == { timezone_list[i][1] : i \in DOMAIN timezone_list }

\* Mutant of ResolveTz: the default is the first entry of the catalog.
ResolveTz_default_first(label) ==
    LET hits == { i \in DOMAIN timezone_list : timezone_list[i][1] = label }
    IN  IF hits = {} THEN timezone_list[1][2]
        ELSE timezone_list[CHOOSE i \in hits : \A j \in hits : i <= j][2]

\* next((tz for disp, tz in self.timezone_list if disp == label), "Etc/UTC")
ResolveTz(label) ==
    LET hits == { i \in DOMAIN timezone_list : timezone_list[i][1] = label }
    IN  IF hits = {} THEN "Etc/UTC"
        ELSE timezone_list[CHOOSE i \in hits : \A j \in hits : i <= j][2]

MinutesPerDay == 24 * 60

\* tz.localize(naive): the UTC offset (minutes) pytz gives a wall-clock time
\* of the zone (is_dst=False: an ambiguous time is standard time).
LocalizeOffset(tz, date, minuteOfDay) ==
    CASE tz = "America/Los_Angeles" ->
            IF date < 6 \/ (date = 6 /\ minuteOfDay < 60) THEN -420 ELSE -480
      [] OTHER -> 0

\* aware.astimezone(tz): the UTC offset (minutes) of the zone at a UTC instant.
InstantOffset(tz, utcMinutes) ==
    CASE tz = "America/Los_Angeles" ->
            IF utcMinutes < 6 * MinutesPerDay + 9 * 60 THEN -420 ELSE -480
      [] OTHER -> 0

\* local_tz.localize(dt): the instant, in minutes of UTC since date 0, 00:00.
localize(tz, dt) ==
    LET m == dt.hour * 60 + dt.minute
    IN  dt.date * MinutesPerDay + m - LocalizeOffset(tz, dt.date, m)

\* instant.astimezone(target_tz): the wall-clock date and time in the zone.
astimezone(tz, utcMinutes) ==
    LET w == utcMinutes + InstantOffset(tz, utcMinutes)
        d == IF w >= 0 THEN w \div MinutesPerDay
             ELSE -((-w + MinutesPerDay - 1) \div MinutesPerDay)
        m == w - d * MinutesPerDay
    IN  [ date |-> d, hour |-> m \div 60, minute |-> m % 60 ]

\* dt.strftime("%H:%M"): the date is dropped, hour and minute are kept.
strftime_HM(dt) == << dt.hour, dt.minute >>

\* today - timedelta(days=today.weekday()), then the 7 dates from it.
get_week_dates(td) ==
    LET start_week == td - (td % 7)
    IN  [ i \in 0 .. (NumDays - 1) |-> start_week + i ]

\* datetime.combine(date.today(), time(hour=minutes // 60, minute=minutes % 60));
\* datetime.time raises ValueError unless 0 <= hour <= 23.
get_slot_datetime(slot, td) ==
    LET minutes == slot * SlotMinutes
        hour == minutes \div 60
    IN  IF hour > 23
        THEN [ error |-> "ValueError" ]
        ELSE [ error |-> "none", date |-> td, hour |-> hour, minute |-> minutes % 60 ]

-----------------------------------------------------------------------------
(* update_meeting_proposal.  A line of the text is a record with a kind;   *)
(* a formatted time "HH:MM" is the pair <<hour, minute>> and a formatted    *)
(* date ("%A, %b %d") is the date it prints.                                *)

\* The least element first: sorted([...]).
RECURSIVE sorted(_)
sorted(S) ==
    IF S = {} THEN << >>
    ELSE LET m == CHOOSE x \in S : \A y \in S : x <= y
         IN  << m >> \o sorted(S \ {m})

\* The keys k with cell_states.get(k, False) true.
SelectedKeys(cs) == { k \in cs.keys : k \in cs.on }

\* sorted([slot for slot in range(total_slots) if cell_states.get((day, slot), False)]),
\* given on = SelectedKeys(cell_states)
selected_slots(on, day) ==
    sorted({ k[2] : k \in { c \in on : c[1] = day /\ c[2] \in Slots } })

\* Mutant of group_loop: a slot extends the open group whenever it is larger
\* than the previous one (s > prev_slot instead of s == prev_slot + 1).
RECURSIVE group_loop_merges_gaps(_, _, _, _)
group_loop_merges_gaps(rest, start_slot, prev_slot, groups) ==
    IF rest = << >>
    THEN Append(groups, << start_slot, prev_slot >>)
    ELSE LET s == Head(rest)
         IN  IF s > prev_slot
             THEN group_loop_merges_gaps(Tail(rest), start_slot, s, groups)
             ELSE group_loop_merges_gaps(Tail(rest), s, s,
                                         Append(groups, << start_slot, prev_slot >>))

\* for s in selected_slots[1:]: extend the open group or close it and open one.
RECURSIVE group_loop(_, _, _, _)
group_loop(rest, start_slot, prev_slot, groups) ==
    IF rest = << >>
    THEN Append(groups, << start_slot, prev_slot >>)
    ELSE LET s == Head(rest)
         IN  IF s = prev_slot + 1
             THEN group_loop(Tail(rest), start_slot, s, groups)
             ELSE group_loop(Tail(rest), s, s,
                             Append(groups, << start_slot, prev_slot >>))

\* groups of a non-empty sorted list of slots
make_groups(slots) == group_loop(Tail(slots), slots[1], slots[1], << >>)

\* Mutant of range_str: the end time is the time of slot end_s, not end_s + 1.
range_str_end_inclusive(start_s, end_s, local_disp, target_disp, td) ==
    LET start_time == get_slot_datetime(start_s, td)
        end_time == get_slot_datetime(end_s, td)
        local_tz == ResolveTz(local_disp)
        target_tz == ResolveTz(target_disp)
    IN  IF start_time.error # "none" THEN [ error |-> start_time.error ]
        ELSE IF end_time.error # "none" THEN [ error |-> end_time.error ]
        ELSE [ error |-> "none",
               str |-> [ start |-> strftime_HM(astimezone(target_tz,
                                       localize(local_tz, start_time))),
                         end |-> strftime_HM(astimezone(target_tz,
                                       localize(local_tz, end_time))) ] ]

\* One "HH:MM - HH:MM" string, or the exception get_slot_datetime raises.
range_str(start_s, end_s, local_disp, target_disp, td) ==
    LET start_time == get_slot_datetime(start_s, td)
        end_time == get_slot_datetime(end_s + 1, td)
        local_tz == ResolveTz(local_disp)
        target_tz == ResolveTz(target_disp)
    IN  IF start_time.error # "none" THEN [ error |-> start_time.error ]
        ELSE IF end_time.error # "none" THEN [ error |-> end_time.error ]
        ELSE [ error |-> "none",
               str |-> [ start |-> strftime_HM(astimezone(target_tz,
                                       localize(local_tz, start_time))),
                         end |-> strftime_HM(astimezone(target_tz,
                                       localize(local_tz, end_time))) ] ]

\* for start_s, end_s in groups: range_strs.append(...)
RECURSIVE range_loop(_, _, _, _, _)
range_loop(groups, range_strs, local_disp, target_disp, td) ==
    IF groups = << >>
    THEN [ error |-> "none", strs |-> range_strs ]
    ELSE LET r == range_str(Head(groups)[1], Head(groups)[2],
                            local_disp, target_disp, td)
         IN  IF r.error # "none" THEN [ error |-> r.error ]
             ELSE range_loop(Tail(groups), Append(range_strs, r.str),
                             local_disp, target_disp, td)

\* Mutant of day_loop: the date label is the date the first run starts on
\* in the target timezone.
RECURSIVE day_loop_target_date(_, _, _, _, _, _, _)
day_loop_target_date(day, lines, on, local_disp, target_disp, td, wd) ==
    IF day >= NumDays
    THEN [ error |-> "none", lines |-> lines ]
    ELSE LET slots == selected_slots(on, day)
         IN  IF slots = << >>
             THEN day_loop_target_date(day + 1, lines, on, local_disp, target_disp,
                                       td, wd)
             ELSE LET r == range_loop(make_groups(slots), << >>,
                                      local_disp, target_disp, td)
                      first == astimezone(ResolveTz(target_disp),
                                   localize(ResolveTz(local_disp),
                                            get_slot_datetime(slots[1], td)))
                  IN  IF r.error # "none" THEN [ error |-> r.error ]
                      ELSE day_loop_target_date(day + 1,
                                    Append(lines, [ kind |-> "day",
                                                    day_str |-> wd[day] + (first.date - td),
                                                    ranges |-> r.strs ]),
                                    on, local_disp, target_disp, td, wd)

\* for day in range(7): one line for each day with selected slots.
RECURSIVE day_loop(_, _, _, _, _, _, _)
day_loop(day, lines, on, local_disp, target_disp, td, wd) ==
    IF day >= NumDays
    THEN [ error |-> "none", lines |-> lines ]
    ELSE LET slots == selected_slots(on, day)
         IN  IF slots = << >>
             THEN day_loop(day + 1, lines, on, local_disp, target_disp, td, wd)
             ELSE LET r == range_loop(make_groups(slots), << >>,
                                      local_disp, target_disp, td)
                  IN  IF r.error # "none" THEN [ error |-> r.error ]
                      ELSE day_loop(day + 1,
                                    Append(lines, [ kind |-> "day",
                                                    day_str |-> wd[day],
                                                    ranges |-> r.strs ]),
                                    on, local_disp, target_disp, td, wd)

HeaderLine(duration, target_disp) ==
    [ kind |-> "header", duration |-> duration, tz |-> target_disp ]

NoTimesLine == [ kind |-> "No times selected yet." ]

ClosingLine ==
    [ kind |-> "If none of these are convenient, I'm happy to adjust to your availability." ]

\* The text update_meeting_proposal writes to the widget, or the exception
\* it raises before writing anything.
update_meeting_proposal(cs, local_disp, target_disp, duration, td, wd) ==
    LET r == day_loop(0, << HeaderLine(duration, target_disp) >>,
                      SelectedKeys(cs), local_disp, target_disp, td, wd)
    IN  IF r.error # "none" THEN [ error |-> r.error ]
        ELSE [ error |-> "none",
               lines |-> (IF Len(r.lines) = 1
                          THEN Append(r.lines, NoTimesLine)
                          ELSE r.lines) \o << ClosingLine >> ]

-----------------------------------------------------------------------------
(* update_time_labels and is_business_hours.  The background colours of    *)
(* the cells are held as the set of cells coloured "#FFDAB9" and the set   *)
(* of cells coloured "white"; every other cell is "#C7C7C7".               *)

SelectedBg == "#FFDAB9"
BusinessBg == "white"
OffHoursBg == "#C7C7C7"

\* cell.cget("bg")
CellBg(labels, cell) ==
    IF cell \in labels.selected THEN SelectedBg
    ELSE IF cell \in labels.white THEN BusinessBg
    ELSE OffHoursBg

\* Mutant of is_business_hours: the upper bound is inclusive (hour <= 18).
is_business_hours_inclusive(slot, local_disp, target_disp, td) ==
    LET time == get_slot_datetime(slot, td)
        target_tz == ResolveTz(target_disp)
        local_tz == ResolveTz(local_disp)
        target_dt == astimezone(target_tz, localize(local_tz, time))
    IN  8 <= target_dt.hour /\ target_dt.hour <= 18

\* The slot's time on today's date, localized in the local timezone and
\* converted to the target timezone: 8 <= target_dt.hour < 18.
is_business_hours(slot, local_disp, target_disp, td) ==
    LET time == get_slot_datetime(slot, td)
        target_tz == ResolveTz(target_disp)
        local_tz == ResolveTz(local_disp)
        target_dt == astimezone(target_tz, localize(local_tz, time))
    IN  8 <= target_dt.hour /\ target_dt.hour < 18

\* for slot in range(total_slots): the two time labels of the slot and the
\* colour of the slot's seven cells.  localize keeps the wall-clock time, so
\* dt_local.strftime("%H:%M") prints the time of the naive dt.
update_time_labels(cs, local_disp, target_disp, td) ==
    LET local_tz == ResolveTz(local_disp)
        target_tz == ResolveTz(target_disp)
        business == { slot \in Slots :
                        is_business_hours(slot, local_disp, target_disp, td) }
        is_selected == { c \in SelectedKeys(cs) : c \in AllCells }
    IN  [ time_labels |->
            [ local |-> [ slot \in Slots |->
                            strftime_HM(get_slot_datetime(slot, td)) ],
              other |-> [ slot \in Slots |->
                            strftime_HM(astimezone(target_tz,
                                localize(local_tz, get_slot_datetime(slot, td)))) ] ],
          slot_labels |->
            [ selected |-> is_selected,
              white |-> { << day, slot >> : day \in Days, slot \in business }
                            \ is_selected ] ]

-----------------------------------------------------------------------------
(* The selection state machine *)

\* self.update_cell_appearance(day, slot): the class defines no such method
\* and tkinter's Tk.__getattr__ finds none, so the call raises.
update_cell_appearance == "AttributeError"

\* Mutant of set_cell_state: the key written is (slot, day).
set_cell_state_swapped_key(cs, cell, state) ==
    [ cells |-> DictSet(cs, << cell[2], cell[1] >>, state),
      error |-> update_cell_appearance ]

\* self.cell_states[(day, slot)] = state; self.update_cell_appearance(day, slot)
set_cell_state(cs, cell, state) ==
    [ cells |-> DictSet(cs, cell, state), error |-> update_cell_appearance ]

\* for day, slot in updates: self.set_cell_state(day, slot, self.selection_mode)
RECURSIVE paint_loop(_, _, _)
paint_loop(cs, updates, mode) ==
    IF updates = << >>
    THEN [ cells |-> cs, error |-> "none" ]
    ELSE LET r == set_cell_state(cs, Head(updates), mode)
         IN  IF r.error # "none" THEN r
             ELSE paint_loop(r.cells, Tail(updates), mode)

Ordinal(cell) == cell[1] * total_slots + cell[2]

Min(a, b) == IF a <= b THEN a ELSE b
Max(a, b) == IF a >= b THEN a ELSE b

\* The cells of range(min_ordinal, max_ordinal + 1), in that order.
UpdatesOf(start, end) ==
    LET min_ordinal == Min(Ordinal(start), Ordinal(end))
        max_ordinal == Max(Ordinal(start), Ordinal(end))
    IN  [ i \in 1 .. (max_ordinal - min_ordinal + 1) |->
            CellOfOrdinal(min_ordinal + i - 1) ]

\* Mutant of update_selection: day and slot of an ordinal are exchanged
\* (day = ordinal % total_slots, slot = ordinal // total_slots).
update_selection_swapped_divmod(cs, start, end, mode) ==
    LET updates == UpdatesOf(start, end)
    IN  paint_loop(cs, [ i \in DOMAIN updates |->
                            << Ordinal(updates[i]) % total_slots,
                               Ordinal(updates[i]) \div total_slots >> ], mode)

\* Mutant of update_selection: the cells outside the range are deselected
\* before the range is painted (the selection follows the pointer back).
update_selection_rubber_band(cs, start, end, mode) ==
    LET updates == UpdatesOf(start, end)
        inside == { updates[i] : i \in DOMAIN updates }
    IN  paint_loop([ keys |-> cs.keys, on |-> cs.on \cap inside ], updates, mode)

update_selection(cs, start, end, mode) ==
    paint_loop(cs, UpdatesOf(start, end), mode)

\* The tail of a callback that calls update_meeting_proposal, given the
\* exception (if any) raised before the call is reached.
ShowProposal(cs, local_disp, target_disp, duration, earlier_error) ==
    IF earlier_error # "none"
    THEN /\ meeting_text' = meeting_text
         /\ callback_error' = earlier_error
         /\ proposal_called' = FALSE
    ELSE LET p == update_meeting_proposal(cs, local_disp, target_disp,
                                          duration, today, week_dates)
         IN  /\ proposal_called' = TRUE
             /\ IF p.error # "none"
                THEN /\ meeting_text' = meeting_text
                     /\ callback_error' = p.error
                ELSE /\ meeting_text' = p.lines
                     /\ callback_error' = "none"

\* Mutant of on_cell_click: selection_mode is the cell's state, not its negation.
on_cell_click_no_negation(cell) ==
    LET mode == DictValue(cell_states, cell)
        r == set_cell_state(cell_states, cell, mode)
    IN  /\ selection_mode' = mode
        /\ start_cell' = cell
        /\ last_cell' = cell
        /\ dragging' = TRUE
        /\ cell_states' = r.cells
        /\ ShowProposal(r.cells, local_tz_cb, target_tz_cb, duration_cb, r.error)
        /\ last_event' = "on_cell_click"
        /\ prev_anchor' = IF dragging THEN start_cell ELSE None
        /\ UNCHANGED << local_tz_cb, target_tz_cb, duration_cb, today, week_dates,
                          time_labels, slot_labels >>

\* Mutant of on_cell_click: start_cell and last_cell are assigned after
\* set_cell_state, so the assignments are lost when it raises.
on_cell_click_anchor_after_paint(cell) ==
    LET mode == ~DictValue(cell_states, cell)
        r == set_cell_state(cell_states, cell, mode)
    IN  /\ selection_mode' = mode
        /\ dragging' = TRUE
        /\ cell_states' = r.cells
        /\ start_cell' = IF r.error = "none" THEN cell ELSE start_cell
        /\ last_cell' = IF r.error = "none" THEN cell ELSE last_cell
        /\ ShowProposal(r.cells, local_tz_cb, target_tz_cb, duration_cb, r.error)
        /\ last_event' = "on_cell_click"
        /\ prev_anchor' = IF dragging THEN start_cell ELSE None
        /\ UNCHANGED << local_tz_cb, target_tz_cb, duration_cb, today, week_dates,
                        time_labels, slot_labels >>

\* <Button-1> on a grid cell
on_cell_click(cell) ==
    LET mode == ~DictValue(cell_states, cell)
        r == set_cell_state(cell_states, cell, mode)
    IN  /\ selection_mode' = mode
        /\ start_cell' = cell
        /\ last_cell' = cell
        /\ dragging' = TRUE
        /\ cell_states' = r.cells
        /\ ShowProposal(r.cells, local_tz_cb, target_tz_cb, duration_cb, r.error)
        /\ last_event' = "on_cell_click"
        /\ prev_anchor' = IF dragging THEN start_cell ELSE None
        /\ UNCHANGED << local_tz_cb, target_tz_cb, duration_cb, today, week_dates,
                          time_labels, slot_labels >>

\* Mutant of on_drag: the test current_cell != self.last_cell is missing.
on_drag_no_last_check(widget) ==
    /\ last_event' = "on_drag"
    /\ proposal_called' = FALSE
    /\ UNCHANGED << dragging, start_cell, selection_mode, local_tz_cb, target_tz_cb,
                    duration_cb, meeting_text, today, week_dates, prev_anchor,
                    time_labels, slot_labels >>
    /\ IF ~dragging \/ start_cell = None
       THEN UNCHANGED << cell_states, last_cell >> /\ callback_error' = "none"
       ELSE IF widget # NoCell
       THEN LET r == update_selection(cell_states, start_cell, widget, selection_mode)
            IN  /\ cell_states' = r.cells
                /\ callback_error' = r.error
                /\ last_cell' = IF r.error = "none" THEN widget ELSE last_cell
       ELSE UNCHANGED << cell_states, last_cell >> /\ callback_error' = "none"

\* <B1-Motion> anywhere; widget is what winfo_containing finds under the pointer
on_drag(widget) ==
    /\ last_event' = "on_drag"
    /\ proposal_called' = FALSE
    /\ UNCHANGED << dragging, start_cell, selection_mode, local_tz_cb, target_tz_cb,
                    duration_cb, meeting_text, today, week_dates, prev_anchor,
                    time_labels, slot_labels >>
    /\ IF ~dragging \/ start_cell = None
       THEN UNCHANGED << cell_states, last_cell >> /\ callback_error' = "none"
       ELSE IF widget # NoCell /\ widget # last_cell
       THEN LET r == update_selection(cell_states, start_cell, widget, selection_mode)
            IN  /\ cell_states' = r.cells
                /\ callback_error' = r.error
                /\ last_cell' = IF r.error = "none" THEN widget ELSE last_cell
       ELSE UNCHANGED << cell_states, last_cell >> /\ callback_error' = "none"

\* Mutant of on_release: start_cell is not reset.
on_release_keeps_anchor ==
    /\ last_event' = "on_release"
    /\ prev_anchor' = None
    /\ UNCHANGED << cell_states, selection_mode, local_tz_cb, target_tz_cb,
                    duration_cb, today, week_dates, start_cell,
                    time_labels, slot_labels >>
    /\ IF dragging
       THEN /\ dragging' = FALSE
            /\ last_cell' = None
            /\ ShowProposal(cell_states, local_tz_cb, target_tz_cb, duration_cb, "none")
       ELSE /\ UNCHANGED << dragging, last_cell, meeting_text >>
            /\ callback_error' = "none"
            /\ proposal_called' = FALSE

\* <ButtonRelease-1> anywhere
on_release ==
    /\ last_event' = "on_release"
    /\ prev_anchor' = None
    /\ UNCHANGED << cell_states, selection_mode, local_tz_cb, target_tz_cb,
                    duration_cb, today, week_dates,
                          time_labels, slot_labels >>
    /\ IF dragging
       THEN /\ dragging' = FALSE
            /\ start_cell' = None
            /\ last_cell' = None
            /\ ShowProposal(cell_states, local_tz_cb, target_tz_cb, duration_cb, "none")
       ELSE /\ UNCHANGED << dragging, start_cell, last_cell, meeting_text >>
            /\ callback_error' = "none"
            /\ proposal_called' = FALSE

\* <Button-3> on a grid cell
on_cell_right_click(cell) ==
    LET r == set_cell_state(cell_states, cell, FALSE)
    IN  /\ cell_states' = r.cells
        /\ ShowProposal(r.cells, local_tz_cb, target_tz_cb, duration_cb, r.error)
        /\ last_event' = "on_cell_right_click"
        /\ UNCHANGED << dragging, start_cell, last_cell, selection_mode, local_tz_cb,
                        target_tz_cb, duration_cb, today, week_dates, prev_anchor,
                        time_labels, slot_labels >>

\* Mutant of timezone_changed: the callback also ends the drag.
timezone_changed_ends_drag(local_disp, target_disp) ==
    LET u == update_time_labels(cell_states, local_disp, target_disp, today)
    IN  /\ local_tz_cb' = local_disp
        /\ target_tz_cb' = target_disp
        /\ time_labels' = u.time_labels
        /\ slot_labels' = u.slot_labels
        /\ ShowProposal(cell_states, local_disp, target_disp, duration_cb, "none")
        /\ last_event' = "timezone_changed"
        /\ dragging' = FALSE
        /\ start_cell' = None
        /\ last_cell' = None
        /\ UNCHANGED << cell_states, selection_mode,
                        duration_cb, today, week_dates, prev_anchor >>

\* <<ComboboxSelected>> on either timezone combobox: the new value is set,
\* then timezone_changed runs update_time_labels and update_meeting_proposal.
timezone_changed(local_disp, target_disp) ==
    LET u == update_time_labels(cell_states, local_disp, target_disp, today)
    IN  /\ local_tz_cb' = local_disp
        /\ target_tz_cb' = target_disp
        /\ time_labels' = u.time_labels
        /\ slot_labels' = u.slot_labels
        /\ ShowProposal(cell_states, local_disp, target_disp, duration_cb, "none")
        /\ last_event' = "timezone_changed"
        /\ UNCHANGED << cell_states, dragging, start_cell, last_cell, selection_mode,
                        duration_cb, today, week_dates, prev_anchor >>

\* <KeyRelease> on a timezone combobox (it is editable): the text of the
\* box is what the user typed; _handle_keyrelease only filters the drop-down
\* list, and the typed text used here is contained in every label, so the
\* list stays complete.
key_typed(local_disp, target_disp) ==
    /\ local_tz_cb' = local_disp
    /\ target_tz_cb' = target_disp
    /\ last_event' = "key_typed"
    /\ callback_error' = "none"
    /\ proposal_called' = FALSE
    /\ UNCHANGED << cell_states, dragging, start_cell, last_cell, selection_mode,
                    duration_cb, meeting_text, today, week_dates, time_labels,
                    slot_labels, prev_anchor >>

\* <<ComboboxSelected>> on the duration combobox
duration_changed(duration) ==
    /\ duration_cb' = duration
    /\ ShowProposal(cell_states, local_tz_cb, target_tz_cb, duration, "none")
    /\ last_event' = "duration_changed"
    /\ UNCHANGED << cell_states, dragging, start_cell, last_cell, selection_mode,
                    local_tz_cb, target_tz_cb, today, week_dates, prev_anchor,
                    time_labels, slot_labels >>

-----------------------------------------------------------------------------
(* The program *)

\* The date the program is started on: Sunday 2026-11-01, the last day of
\* its week and the day daylight saving time ends.
StartDates == { 6 }

\* The "Pacific Time" entry set by create_top_section.
DefaultLocalLabel == "(UTC-08:00) US Pacific Time"

\* self.target_tz_cb.set("(UTC+00:00) UTC")
DefaultTargetLabel == "(UTC+00:00) UTC"

\* self.update_time_labels() at the end of __init__: nothing is selected and
\* the comboboxes hold their defaults.
InitialGrid(td) ==
    update_time_labels(DictAllFalse(AllCells), DefaultLocalLabel,
                       DefaultTargetLabel, td)

Init ==
    /\ cell_states = DictAllFalse(AllCells)
    /\ dragging = FALSE
    /\ start_cell = None
    /\ last_cell = None
    /\ selection_mode = FALSE
    /\ local_tz_cb = DefaultLocalLabel
    /\ target_tz_cb = DefaultTargetLabel
    /\ duration_cb = "30 minutes"
    /\ meeting_text = << >>
    /\ today \in StartDates
    /\ week_dates = get_week_dates(today)
    /\ LET u == InitialGrid(today)
       IN  time_labels = u.time_labels /\ slot_labels = u.slot_labels
    /\ last_event = "__init__"
    /\ prev_anchor = None
    /\ callback_error = "none"
    /\ proposal_called = FALSE

CellClick == \E c \in ClickCells : on_cell_click(c)
CellRightClick == \E c \in ClickCells : on_cell_right_click(c)
Drag == \E w \in ClickCells \cup {NoCell} : on_drag(w)
Release == on_release

\* The pointer events, in any order, on the cells of the window.
Next ==
    \/ CellClick
    \/ Drag
    \/ Release
    \/ CellRightClick

Spec == Init /\ [][Next]_vars

-----------------------------------------------------------------------------
(* Proposal generation on its own.  The program starts in the state it is  *)
(* in after the user has selected a set S of cells by a click and a        *)
(* release on each (cells of slot 47 first), or in its initial state for   *)
(* the empty S; the combobox events then regenerate the text.              *)

MaxSelected == 4

\* The cells S is drawn from: six slots of day 0 and two of day 1.
GenSlots == { 0, 10, 11, 12, 15, 47 }
GenCells == { << 0, s >> : s \in GenSlots } \cup { << 1, 0 >>, << 1, 10 >> }

InitGen ==
    /\ today \in StartDates
    /\ week_dates = get_week_dates(today)
    /\ LET u == InitialGrid(today)
       IN  time_labels = u.time_labels /\ slot_labels = u.slot_labels
    /\ local_tz_cb = DefaultLocalLabel
    /\ target_tz_cb = DefaultTargetLabel
    /\ duration_cb = "30 minutes"
    /\ dragging = FALSE
    /\ start_cell = None
    /\ last_cell = None
    /\ prev_anchor = None
    /\ \E S \in SUBSET GenCells :
          /\ Cardinality(S) <= MaxSelected
          /\ cell_states = [ keys |-> AllCells, on |-> S ]
          /\ selection_mode = (S # {})
          /\ last_event = IF S = {} THEN "__init__" ELSE "on_release"
          /\ proposal_called = (S # {})
          /\ LET p == update_meeting_proposal(cell_states, local_tz_cb, target_tz_cb,
                                              duration_cb, today, week_dates)
             IN  /\ meeting_text = IF S = {} \/ p.error # "none" THEN << >> ELSE p.lines
                 /\ callback_error = IF S = {} THEN "none" ELSE p.error

SelectLocalTz == \E l \in TzLabels : timezone_changed(l, target_tz_cb)
SelectTargetTz == \E l \in TzLabels : timezone_changed(local_tz_cb, l)
SelectDuration == \E d \in DurationValues : duration_changed(d)

NextGen ==
    \/ SelectLocalTz
    \/ SelectTargetTz
    \/ SelectDuration

SpecGen == InitGen /\ [][NextGen]_vars

-----------------------------------------------------------------------------
(* The whole program with the pointer on one cell: the pointer events,     *)
(* the drop-down selections and text typed into the timezone comboboxes,   *)
(* in any order.                                                           *)

\* Slot 16 (08:00) of day 0.
UICells == { << 0, 16 >> }

\* A text typed into a timezone combobox that is no label of the catalog
\* (as a substring of every label it leaves the drop-down list complete).
TypedText == "utc"

UIClick == \E c \in UICells : on_cell_click(c)
UIRightClick == \E c \in UICells : on_cell_right_click(c)
UIDrag == \E w \in UICells \cup {NoCell} : on_drag(w)
TypeLocalTz == key_typed(TypedText, target_tz_cb)
TypeTargetTz == key_typed(local_tz_cb, TypedText)

NextUI ==
    \/ UIClick
    \/ UIDrag
    \/ Release
    \/ UIRightClick
    \/ SelectLocalTz
    \/ SelectTargetTz
    \/ SelectDuration
    \/ TypeLocalTz
    \/ TypeTargetTz

SpecUI == Init /\ [][NextUI]_vars

-----------------------------------------------------------------------------
(* The selection state machine: claims C1 to C6 *)

\* k lies in the ordinal range between cells a and c, both ends included.
InRange(k, a, c) ==
    /\ Min(Ordinal(a), Ordinal(c)) <= Ordinal(k)
    /\ Ordinal(k) <= Max(Ordinal(a), Ordinal(c))

\* The step paints exactly the ordinal range between a and c with the
\* paint value and changes no other cell.
PaintsRange(a, c) ==
    \A k \in AllCells :
        DictValue(cell_states', k)
            = IF InRange(k, a, c) THEN selection_mode ELSE DictValue(cell_states, k)

\* The cells whose state the step changes.
ChangedCells ==
    { k \in cell_states'.keys :
        k \notin cell_states.keys \/ DictValue(cell_states', k) # DictValue(cell_states, k) }

\* C1: during a drag, a drag event over a cell other than last_cell sets
\* every cell of the ordinal range between the anchor and that cell to the
\* paint value, changes no other cell, and makes that cell last_cell.
C1_ExtendPaintsRange ==
    [][ \A c \in ClickCells :
            (dragging /\ c # last_cell /\ on_drag(c))
                => (PaintsRange(start_cell, c) /\ last_cell' = c) ]_vars

\* C2: a click on a cell, in any state, sets selection_mode to the negation
\* of the cell's state before the click, sets start_cell and last_cell to
\* the cell and dragging to TRUE, sets the cell's state to selection_mode,
\* and changes the state of exactly that one cell.
C2_BeginSelection ==
    [][ \A c \in ClickCells :
            on_cell_click(c)
                => /\ selection_mode' = ~DictValue(cell_states, c)
                   /\ start_cell' = c
                   /\ last_cell' = c
                   /\ dragging' = TRUE
                   /\ DictValue(cell_states', c) = selection_mode'
                   /\ ChangedCells = {c} ]_vars

\* A click has deselected the selected cell (0,47) while (1,0) stays selected.
C2_Witness ==
    /\ last_event = "on_cell_click"
    /\ dragging
    /\ start_cell = <<0, 47>>
    /\ last_cell = <<0, 47>>
    /\ selection_mode = FALSE
    /\ SelectedKeys(cell_states) = { <<1, 0>> }

\* C3: a drag event changes none of cell_states, dragging, start_cell,
\* last_cell and selection_mode when dragging is false or the cell under the
\* pointer is last_cell.
C3_ExtendNoOp ==
    [][ \A w \in ClickCells :
            (on_drag(w) /\ (~dragging \/ w = last_cell))
                => UNCHANGED << cell_states, dragging, start_cell, last_cell,
                                selection_mode >> ]_vars

\* A drag event has run before any click: nothing is selected, no drag is on.
C3_Witness ==
    /\ last_event = "on_drag"
    /\ ~dragging
    /\ start_cell = None
    /\ last_cell = None
    /\ SelectedKeys(cell_states) = {}
    /\ meeting_text = << >>

\* C4: a release leaves dragging false and start_cell and last_cell None,
\* and changes no cell's state.
C4_EndSelection ==
    [][ on_release
            => /\ dragging' = FALSE
               /\ start_cell' = None
               /\ last_cell' = None
               /\ cell_states' = cell_states ]_vars

\* A release has ended a drag and the cells painted before it are still selected.
C4_Witness ==
    /\ last_event = "on_release"
    /\ ~dragging
    /\ start_cell = None
    /\ last_cell = None
    /\ SelectedKeys(cell_states) = { <<1, 0>>, <<1, 1>> }
    /\ callback_error = "none"
    /\ Len(meeting_text) = 3

\* C5: a right-click on a cell, in any state, sets that cell's state to
\* FALSE and changes neither dragging, start_cell, last_cell, selection_mode
\* nor any other cell's state.
C5_ClearCell ==
    [][ \A c \in ClickCells :
            on_cell_right_click(c)
                => /\ DictValue(cell_states', c) = FALSE
                   /\ ChangedCells \subseteq {c}
                   /\ UNCHANGED << dragging, start_cell, last_cell, selection_mode >> ]_vars

\* A right-click in the middle of a selecting drag has cleared the anchor cell.
C5_Witness ==
    /\ last_event = "on_cell_right_click"
    /\ dragging
    /\ selection_mode = TRUE
    /\ start_cell = <<0, 47>>
    /\ last_cell = <<0, 47>>
    /\ SelectedKeys(cell_states) = { <<1, 1>> }

\* C6: a click on a cell while dragging is already true makes that cell
\* start_cell and last_cell and sets selection_mode to the negation of its
\* state, and a drag event that follows over a cell c paints the ordinal
\* range between the clicked cell and c (not the range from the earlier anchor).
C6_ReenteredBegin ==
    [][ /\ \A c2 \in ClickCells :
              (dragging /\ on_cell_click(c2))
                  => /\ start_cell' = c2
                     /\ last_cell' = c2
                     /\ selection_mode' = ~DictValue(cell_states, c2)
        /\ \A c \in ClickCells :
              (prev_anchor # None /\ dragging /\ c # last_cell /\ on_drag(c))
                  => PaintsRange(start_cell, c) ]_vars

-----------------------------------------------------------------------------
(* Proposal generation: claims C7 to C10 *)

\* The selected slots of a day, as a set.
DaySlots(d) == { sl \in Slots : DictValue(cell_states, << d, sl >>) }

\* The groups update_meeting_proposal computes for a day (none for a day
\* without selected slots).
GroupsOfDay(d) ==
    LET slots == selected_slots(SelectedKeys(cell_states), d)
    IN  IF slots = << >> THEN << >> ELSE make_groups(slots)

\* C7: for every day the groups are the maximal runs of consecutive selected
\* slots: every slot of a run [a,b] is selected, a-1 and b+1 are not
\* selected (or out of range), and every selected slot lies in exactly one run.
RunsAreMaximal(S, g) ==
    /\ \A i \in DOMAIN g :
          /\ g[i][1] <= g[i][2]
          /\ \A sl \in g[i][1] .. g[i][2] : sl \in S
          /\ (g[i][1] - 1) \notin S
          /\ (g[i][2] + 1) \notin S
    /\ \A sl \in S :
          Cardinality({ i \in DOMAIN g : g[i][1] <= sl /\ sl <= g[i][2] }) = 1

C7_MaximalRuns == \A d \in Days : RunsAreMaximal(DaySlots(d), GroupsOfDay(d))

\* Slots {10,11,12,15} of day 0 are selected, the proposal has been
\* generated, and the runs are [(10,12),(15,15)]: two ranges on the day's line.
C7_Witness ==
    /\ last_event = "duration_changed"
    /\ callback_error = "none"
    /\ DaySlots(0) = { 10, 11, 12, 15 }
    /\ GroupsOfDay(0) = << << 10, 12 >>, << 15, 15 >> >>
    /\ Len(meeting_text) = 3
    /\ meeting_text[2].kind = "day"
    /\ Len(meeting_text[2].ranges) = 2

\* The naive date and time of slot index i (0..48) of day d of the week:
\* index 48 is 00:00 of the next calendar day.
SlotTimeOfDay(d, i) ==
    LET minutes == i * SlotMinutes
    IN  [ date |-> week_dates[d] + (minutes \div MinutesPerDay),
          hour |-> (minutes % MinutesPerDay) \div 60,
          minute |-> minutes % 60 ]

\* "HH:MM" of a naive source time in the target timezone.
Rendered(dt) ==
    strftime_HM(astimezone(ResolveTz(target_tz_cb), localize(ResolveTz(local_tz_cb), dt)))

\* The first slot of the run of selected slots of day d that ends at slot b.
RunStart(d, b) ==
    LET S == DaySlots(d)
    IN  CHOOSE a \in 0 .. b :
            /\ \A sl \in a .. b : sl \in S
            /\ (a - 1) \notin S

\* C8: when update_meeting_proposal is called and a day has a run that ends
\* at slot 47, generation does not fail
\* and the last range of that day's line starts at the run's start time and
\* ends at 00:00 of the next calendar day (both shown in the target timezone).
C8_RolloverAtSlot47 ==
    proposal_called =>
        \A d \in Days :
            47 \in DaySlots(d) =>
                /\ callback_error = "none"
                /\ \E i \in DOMAIN meeting_text :
                      /\ meeting_text[i].kind = "day"
                      /\ meeting_text[i].day_str = week_dates[d]
                      /\ meeting_text[i].ranges # << >>
                      /\ LET r == meeting_text[i].ranges[Len(meeting_text[i].ranges)]
                         IN  /\ r.start = Rendered(SlotTimeOfDay(d, RunStart(d, 47)))
                             /\ r.end = Rendered(SlotTimeOfDay(d, 48))

\* The lines between the header and the closing line.
Body == SubSeq(meeting_text, 2, Len(meeting_text) - 1)

\* C9: after update_meeting_proposal is called the proposal is the header line, a body and the closing
\* line, and the body is the single line "No times selected yet." exactly
\* when no cell is selected.
C9_ProposalShape ==
    proposal_called =>
        /\ Len(meeting_text) >= 3
        /\ meeting_text[1] = HeaderLine(duration_cb, target_tz_cb)
        /\ meeting_text[Len(meeting_text)] = ClosingLine
        /\ (Body = << NoTimesLine >>) <=> (SelectedKeys(cell_states) = {})

\* The maximal runs of a set of slots, as a set of pairs.
MaximalRuns(S) ==
    { r \in S \X S :
        /\ r[1] <= r[2]
        /\ \A sl \in r[1] .. r[2] : sl \in S
        /\ (r[1] - 1) \notin S
        /\ (r[2] + 1) \notin S }

\* C10: after update_meeting_proposal is called, for any selection, the
\* body has exactly one line for each day that
\* has a selected slot, in ascending day order, and no other line; each line
\* lists one range per maximal run of its day, in ascending slot order.
C10_DayLines ==
    proposal_called =>
        LET daysWith == { d \in Days : DaySlots(d) # {} }
            order == sorted(daysWith)
        IN  /\ Len(meeting_text) >= 3
            /\ daysWith # {} =>
                  /\ Len(Body) = Len(order)
                  /\ \A i \in DOMAIN order :
                        LET runs == MaximalRuns(DaySlots(order[i]))
                            starts == sorted({ r[1] : r \in runs })
                        IN  /\ Body[i].kind = "day"
                            /\ Body[i].day_str = week_dates[order[i]]
                            /\ Len(Body[i].ranges) = Cardinality(runs)
                            /\ \A j \in DOMAIN starts :
                                  Body[i].ranges[j].start
                                      = strftime_HM(astimezone(ResolveTz(target_tz_cb),
                                            localize(ResolveTz(local_tz_cb),
                                                get_slot_datetime(starts[j], today))))
            /\ daysWith = {} => \A i \in DOMAIN meeting_text : meeting_text[i].kind # "day"

-----------------------------------------------------------------------------
(* The controller: claims C11 to C13 *)

\* The proposal generated from the current selection and the current settings.
CurrentProposal ==
    update_meeting_proposal(cell_states, local_tz_cb, target_tz_cb, duration_cb,
                            today, week_dates)

\* C11: after every callback (click, drag, release, right-click, timezone
\* change, duration change) the displayed text is the proposal generated
\* from the current selection and the current settings.
C11_TextNeverStale ==
    last_event # "__init__" =>
        /\ CurrentProposal.error = "none"
        /\ meeting_text = CurrentProposal.lines

\* C12: a timezone change or a duration change leaves cell_states, dragging,
\* start_cell, last_cell and selection_mode unchanged, in any state
\* including the middle of a drag.
C12_SettingsFrame ==
    [][ last_event' \in { "timezone_changed", "duration_changed" }
            => UNCHANGED << cell_states, dragging, start_cell, last_cell,
                            selection_mode >> ]_vars

\* The local timezone has been changed in the middle of a drag that began
\* with a click on cell (0,16): the drag is still on and the cell selected.
C12_Witness ==
    /\ last_event = "timezone_changed"
    /\ local_tz_cb = DefaultTargetLabel
    /\ dragging
    /\ start_cell = << 0, 16 >>
    /\ last_cell = << 0, 16 >>
    /\ selection_mode = TRUE
    /\ SelectedKeys(cell_states) = { << 0, 16 >> }

\* C13: the colour of every cell is "#FFDAB9" exactly when the cell is
\* selected; a cell that is not selected is "white" when its slot is within
\* business hours of the target timezone and "#C7C7C7" otherwise.
C13_CellColours ==
    LET business == { slot \in Slots :
                        is_business_hours(slot, local_tz_cb, target_tz_cb, today) }
    IN  \A c \in AllCells :
            CellBg(slot_labels, c)
                = IF DictValue(cell_states, c) THEN SelectedBg
                  ELSE IF c[2] \in business THEN BusinessBg
                  ELSE OffHoursBg

-----------------------------------------------------------------------------
(* Business hours, errors and the default timezone: claims C14 to C16 *)

\* The naive time of a slot on today's date.
SlotTimeToday(slot) ==
    [ date |-> today,
      hour |-> (slot * SlotMinutes) \div 60,
      minute |-> (slot * SlotMinutes) % 60 ]

\* Minutes since midnight of a slot's time, localized in zone zl and
\* converted to zone zt.
TargetMinuteOfDay(slot, zl, zt) ==
    LET t == astimezone(zt, localize(zl, SlotTimeToday(slot)))
    IN  t.hour * 60 + t.minute

\* C14: a slot is classified as business hours (its cells that are not
\* highlighted are "white") exactly when its time t in the target timezone
\* satisfies 08:00 <= t < 18:00: 08:00 is business hours, 18:00 is not.
C14_BusinessHours ==
    LET zl == ResolveTz(local_tz_cb)
        zt == ResolveTz(target_tz_cb)
        inHours == { slot \in Slots :
                       /\ 8 * 60 <= TargetMinuteOfDay(slot, zl, zt)
                       /\ TargetMinuteOfDay(slot, zl, zt) < 18 * 60 }
    IN  \A c \in AllCells :
            CellBg(slot_labels, c) # SelectedBg
                => ((CellBg(slot_labels, c) = BusinessBg) <=> (c[2] \in inHours))

\* Local timezone UTC, target timezone US Pacific: slot 32 is 08:00 in the
\* target timezone and white, slot 2 is 18:00 there and not white.
C14_Witness ==
    /\ last_event = "timezone_changed"
    /\ local_tz_cb = DefaultTargetLabel
    /\ target_tz_cb = DefaultLocalLabel
    /\ TargetMinuteOfDay(32, "UTC", "America/Los_Angeles") = 8 * 60
    /\ CellBg(slot_labels, << 6, 32 >>) = BusinessBg
    /\ TargetMinuteOfDay(2, "UTC", "America/Los_Angeles") = 18 * 60
    /\ CellBg(slot_labels, << 6, 2 >>) = OffHoursBg

\* C15: update_meeting_proposal never ends with an exception: whenever a
\* callback calls it, the callback ends without error (a range that cannot
\* be computed is left out and the rest of the text is produced).
C15_NoErrorPropagates ==
    proposal_called =>
        /\ callback_error = "none"
        /\ meeting_text # << >>
        /\ meeting_text[1] = HeaderLine(duration_cb, target_tz_cb)
        /\ meeting_text[Len(meeting_text)] = ClosingLine

\* The timezone a display label stands for: the default for a label that
\* is not in the catalog.
ZoneUsed(label) ==
    IF label \in TzLabels THEN ResolveTz(label) ELSE "Etc/UTC"

\* "HH:MM" of slot index i on today's date, localized in zl, shown in zt.
RenderedIn(i, zl, zt) ==
    strftime_HM(astimezone(zt, localize(zl, SlotTimeToday(i))))

\* The ranges of a day's line when the zones are zl and zt.
RangesIn(d, zl, zt) ==
    LET g == GroupsOfDay(d)
    IN  [ j \in DOMAIN g |-> [ start |-> RenderedIn(g[j][1], zl, zt),
                               end |-> RenderedIn(g[j][2] + 1, zl, zt) ] ]

\* C16: when the local or the target label is not in the catalog, a
\* callback that generates the proposal ends without error and the ranges
\* are those of the timezone "Etc/UTC" in place of the unknown label; a
\* timezone callback also sets the time labels and the cell colours for it.
C16_DefaultTimezone ==
    (proposal_called /\ (local_tz_cb \notin TzLabels \/ target_tz_cb \notin TzLabels))
        => LET zl == ZoneUsed(local_tz_cb)
               zt == ZoneUsed(target_tz_cb)
           IN  /\ callback_error = "none"
               /\ \A d \in Days :
                     DaySlots(d) # {} =>
                        \E i \in DOMAIN meeting_text :
                            /\ meeting_text[i].kind = "day"
                            /\ meeting_text[i].day_str = week_dates[d]
                            /\ meeting_text[i].ranges = RangesIn(d, zl, zt)
               /\ last_event = "timezone_changed" =>
                     /\ \A slot \in Slots :
                           time_labels.other[slot] = RenderedIn(slot, zl, zt)
                     /\ \A slot \in Slots :
                           (CellBg(slot_labels, << 6, slot >>) = BusinessBg)
                               <=> /\ 8 * 60 <= TargetMinuteOfDay(slot, zl, zt)
                                   /\ TargetMinuteOfDay(slot, zl, zt) < 18 * 60

\* "utc" has been typed as local timezone and US Pacific chosen as target:
\* slot 16 of day 0 (08:00) is shown as 01:00 - 01:30, the time of 08:00 UTC.
C16_Witness ==
    /\ last_event = "timezone_changed"
    /\ callback_error = "none"
    /\ local_tz_cb = TypedText
    /\ local_tz_cb \notin TzLabels
    /\ target_tz_cb = DefaultLocalLabel
    /\ SelectedKeys(cell_states) = { << 0, 16 >> }
    /\ Len(meeting_text) = 3
    /\ meeting_text[2].ranges = << [ start |-> << 1, 0 >>, end |-> << 1, 30 >> ] >>
    /\ time_labels.other[16] = << 1, 0 >>

-----------------------------------------------------------------------------
(* Key domain, day boundaries, rendering of a run: claims C17 to C20 *)

\* C17: every key of cell_states is a pair (day, slot) with 0 <= day <= 6
\* and 0 <= slot <= 47, after any sequence of clicks, drags, releases and
\* right-clicks on cells of the grid.
C17_KeysInDomain ==
    /\ \A k \in cell_states.keys :
          /\ k \in Seq(Int)
          /\ Len(k) = 2
          /\ 0 <= k[1] /\ k[1] <= 6
          /\ 0 <= k[2] /\ k[2] <= 47
    /\ cell_states.on \subseteq cell_states.keys

\* A drag that began on (1,0) has moved over (0,47), across the day
\* boundary, and painted it.
C17_Witness ==
    /\ last_event = "on_drag"
    /\ dragging
    /\ start_cell = << 1, 0 >>
    /\ selection_mode = TRUE
    /\ SelectedKeys(cell_states) = { << 0, 47 >>, << 1, 0 >> }

\* The position of the line of day d in the text (0 if there is none).
LineOfDay(d) ==
    LET hits == { i \in DOMAIN meeting_text :
                    /\ meeting_text[i].kind = "day"
                    /\ meeting_text[i].day_str = week_dates[d] }
    IN  IF hits = {} THEN 0 ELSE CHOOSE i \in hits : \A j \in hits : i <= j

\* C18: when update_meeting_proposal is called with (d,47) and (d+1,0) both
\* selected, the text has a line for day d whose last range is the run that
\* ends at slot 47 and, right after it, a line for day d+1 whose first range
\* is the run that starts at slot 0; each line has one range per maximal
\* run of its own day.
C18_NoMergeAcrossDays ==
    proposal_called =>
        \A d \in 0 .. (NumDays - 2) :
            (47 \in DaySlots(d) /\ 0 \in DaySlots(d + 1)) =>
                /\ LineOfDay(d) # 0
                /\ LineOfDay(d + 1) = LineOfDay(d) + 1
                /\ Len(meeting_text[LineOfDay(d)].ranges)
                      = Cardinality(MaximalRuns(DaySlots(d)))
                /\ Len(meeting_text[LineOfDay(d + 1)].ranges)
                      = Cardinality(MaximalRuns(DaySlots(d + 1)))

\* "HH:MM" of slot index i counted as i * 30 minutes from midnight.
SlotHM(i) == << (i * 30) \div 60, (i * 30) % 60 >>

\* C19: when the local and the target timezone are the same, a run [a,b]
\* with b < 47 is rendered with start time (a*30 // 60, a*30 % 60) and end
\* time ((b+1)*30 // 60, (b+1)*30 % 60); the ranges of a generated day line
\* whose runs all end before slot 47 are these, in run order.
C19_IdentityRendering ==
    ResolveTz(local_tz_cb) = ResolveTz(target_tz_cb) =>
        \A d \in Days :
            LET g == GroupsOfDay(d)
            IN  /\ \A j \in DOMAIN g :
                      g[j][2] < 47 =>
                          range_str(g[j][1], g[j][2], local_tz_cb, target_tz_cb, today)
                              = [ error |-> "none",
                                  str |-> [ start |-> SlotHM(g[j][1]),
                                            end |-> SlotHM(g[j][2] + 1) ] ]
                /\ (proposal_called /\ callback_error = "none" /\ g # << >>) =>
                      /\ LineOfDay(d) # 0
                      /\ meeting_text[LineOfDay(d)].ranges
                            = [ j \in DOMAIN g |-> [ start |-> SlotHM(g[j][1]),
                                                     end |-> SlotHM(g[j][2] + 1) ] ]

\* Both timezones are UTC and slots {10,11,12,15} of day 0 are selected:
\* the line of day 0 reads 05:00 - 06:30, 07:30 - 08:00.
C19_Witness ==
    /\ last_event = "timezone_changed"
    /\ callback_error = "none"
    /\ local_tz_cb = DefaultTargetLabel
    /\ target_tz_cb = DefaultTargetLabel
    /\ SelectedKeys(cell_states) = { << 0, 10 >>, << 0, 11 >>, << 0, 12 >>, << 0, 15 >> }
    /\ Len(meeting_text) = 3
    /\ meeting_text[2].ranges
          = << [ start |-> << 5, 0 >>, end |-> << 6, 30 >> ],
               [ start |-> << 7, 30 >>, end |-> << 8, 0 >> ] >>

\* C20: in a generated text every run [a,b] of day d is rendered from the
\* times of slot a and slot b+1 on the calendar date week_dates[d],
\* localized in the local timezone and converted to the target timezone
\* with the offsets in force on that date.
C20_OffsetsOfRunDate ==
    (proposal_called /\ callback_error = "none") =>
        \A d \in Days :
            LET g == GroupsOfDay(d)
            IN  g # << >> =>
                    /\ LineOfDay(d) # 0
                    /\ meeting_text[LineOfDay(d)].ranges
                          = [ j \in DOMAIN g |->
                                [ start |-> Rendered(SlotTimeOfDay(d, g[j][1])),
                                  end |-> Rendered(SlotTimeOfDay(d, g[j][2] + 1)) ] ]

-----------------------------------------------------------------------------
(* Date labels, painting within a drag, the drag state: claims C21 to C23 *)

\* The date a slot of today's date falls on in the target timezone.
TargetDateOf(slot) ==
    astimezone(ResolveTz(target_tz_cb),
               localize(ResolveTz(local_tz_cb), SlotTimeToday(slot))).date

\* C21: in a generated text the line of day index d carries the date
\* week_dates[d] = week_dates[0] + d of the local (source) side, for every
\* pair of timezones, also when the converted times fall on another
\* calendar day in the target timezone.
C21_SourceDateLabel ==
    (proposal_called /\ callback_error = "none") =>
        LET order == sorted({ d \in Days : DaySlots(d) # {} })
            dayLines == SelectSeq(meeting_text, LAMBDA l : l.kind = "day")
        IN  /\ Len(dayLines) = Len(order)
            /\ \A i \in DOMAIN order :
                  /\ dayLines[i].day_str = week_dates[order[i]]
                  /\ dayLines[i].day_str = week_dates[0] + order[i]

\* Local timezone UTC, target US Pacific, slot 0 of day 1 selected: 00:00 is
\* shown as 17:00, a time of the day before, and the line is dated day 1.
C21_Witness ==
    /\ last_event = "timezone_changed"
    /\ callback_error = "none"
    /\ local_tz_cb = DefaultTargetLabel
    /\ target_tz_cb = DefaultLocalLabel
    /\ SelectedKeys(cell_states) = { << 1, 0 >> }
    /\ TargetDateOf(0) = today - 1
    /\ Len(meeting_text) = 3
    /\ meeting_text[2].ranges = << [ start |-> << 17, 0 >>, end |-> << 17, 30 >> ] >>
    /\ meeting_text[2].day_str = week_dates[1]

\* C22: during a drag, a drag event or a release never takes the paint
\* value away from a cell that holds it, and leaves the paint value itself
\* unchanged: what an earlier drag event of the same drag painted stays
\* painted, also when the pointer moves back towards the anchor and when
\* the drag ends.
C22_PaintNeverReverted ==
    [][ (dragging /\ last_event' \in { "on_drag", "on_release" })
            => /\ selection_mode' = selection_mode
               /\ \A k \in AllCells :
                     DictValue(cell_states, k) = selection_mode
                         => DictValue(cell_states', k) = selection_mode ]_vars

\* A selecting drag anchored at (1,1) has moved over (0,47) and then back
\* over (1,0): (0,47), painted by the first move, is still selected.
C22_Witness ==
    /\ last_event = "on_drag"
    /\ dragging
    /\ start_cell = << 1, 1 >>
    /\ selection_mode = TRUE
    /\ prev_anchor = None
    /\ SelectedKeys(cell_states) = { << 0, 47 >>, << 1, 0 >>, << 1, 1 >> }

\* C23: dragging is true exactly when start_cell is not None and exactly
\* when last_cell is not None; while dragging, start_cell and last_cell are
\* cells of the grid.
C23_DragStateConsistent ==
    /\ dragging <=> (start_cell # None)
    /\ dragging <=> (last_cell # None)
    /\ dragging => (start_cell \in AllCells /\ last_cell \in AllCells)

\* A drag event has run during a drag anchored at (1,0), after an earlier
\* drag was ended by a release.
C23_Witness ==
    /\ last_event = "on_drag"
    /\ dragging
    /\ start_cell = << 1, 0 >>
    /\ last_cell = << 1, 0 >>
    /\ selection_mode = FALSE
    /\ SelectedKeys(cell_states) = { << 1, 1 >> }

=============================================================================
